---------------------------- MODULE Spec2Model ----------------------------
(***************************************************************************)
(* Name Styler Bot (src/app.py): the conversation run by the               *)
(* ConversationHandler registered in run_bot, the handler callbacks start, *)
(* get_name, cancel and help_command, and the pure function                *)
(* create_name_styles.                                                     *)
(*                                                                         *)
(* A text is a sequence of pieces.  A piece of user input is one           *)
(* character; a string literal of the source is cut at its line breaks     *)
(* into pieces holding no line break, each line break being the piece LF.  *)
(* Characters outside ASCII are written by their code point ("U+2728").    *)
(***************************************************************************)
EXTENDS Integers, Sequences, FiniteSets

(***************************************************************************)
(* Bounds of the model.                                                    *)
(***************************************************************************)
MaxTextLen == 2
MaxNameLen == 3
MaxErrors  == 1

(***************************************************************************)
(* Characters a user may type, and the characters the case mappings of     *)
(* Python's str produce from them.                                         *)
(***************************************************************************)
LF == "\n"
Whitespace == {" ", LF}
\* Characters of the text messages sent to the conversation.
TextChars == {"a", " ", LF}
\* Characters of the names given to create_name_styles.
NameChars == {"a", "B", "1", "'", "U+00DF", " ", LF}

RECURSIVE StringsUpTo(_, _)
StringsUpTo(alphabet, n) ==
    IF n = 0 THEN {<<>>}
    ELSE LET shorter == StringsUpTo(alphabet, n - 1)
         IN  shorter \cup {Append(t, c) : t \in shorter, c \in alphabet}

\* A Telegram text message is never empty.
Texts == StringsUpTo(TextChars, MaxTextLen) \ {<<>>}

\* str.upper / str.lower / str.title of one character: a text, since the
\* upper and title forms of U+00DF (sharp s) are the two characters "SS"
\* and "Ss".
upper_char(c) ==
    CASE c = "a" -> << "A" >> [] c = "b" -> << "B" >> [] c = "s" -> << "S" >>
      [] c = "U+00DF" -> << "S", "S" >>
      [] OTHER -> << c >>
lower_char(c) ==
    CASE c = "A" -> << "a" >> [] c = "B" -> << "b" >> [] c = "S" -> << "s" >>
      [] OTHER -> << c >>
title_char(c) ==
    CASE c = "U+00DF" -> << "S", "s" >>
      [] OTHER -> upper_char(c)
is_cased(c) == c \in {"a", "b", "s", "A", "B", "S", "U+00DF"}

\* str.isspace, as str.strip() uses it.
is_space(c) == c \in Whitespace

RECURSIVE lstrip(_)
lstrip(s) ==
    IF s # <<>> /\ is_space(Head(s)) THEN lstrip(Tail(s)) ELSE s

RECURSIVE rstrip(_)
rstrip(s) ==
    IF s # <<>> /\ is_space(s[Len(s)]) THEN rstrip(SubSeq(s, 1, Len(s) - 1)) ELSE s

\* A mutant of strip: only leading whitespace is removed.
strip_leading_only(s) == lstrip(s)

\* update.message.text.strip()
strip(s) == rstrip(lstrip(s))

\* sep.join(parts), parts a sequence of texts.
RECURSIVE join(_, _)
join(sep, parts) ==
    IF parts = <<>> THEN <<>>
    ELSE IF Len(parts) = 1 THEN parts[1]
    ELSE parts[1] \o sep \o join(sep, Tail(parts))

\* name.upper(), name.lower(): the forms of the characters, in order.
upper(s) == join(<< >>, [i \in 1..Len(s) |-> upper_char(s[i])])
lower(s) == join(<< >>, [i \in 1..Len(s) |-> lower_char(s[i])])

\* name.title(): a cased character gets its title form when the character
\* before it is not cased (or it is the first), its lower form otherwise; a
\* character that is not cased is kept.
title(s) ==
    join(<< >>, [i \in 1..Len(s) |->
        IF i > 1 /\ is_cased(s[i - 1]) THEN lower_char(s[i]) ELSE title_char(s[i])])

\* ''.join(char.upper() if i % 2 == 0 else char.lower() for i, char in
\* enumerate(name)); the 0-based index i is the 1-based index minus one.
alternating(s) ==
    join(<< >>, [i \in 1..Len(s) |->
        IF (i - 1) % 2 = 0 THEN upper_char(s[i]) ELSE lower_char(s[i])])

\* name[::-1]
reverse(s) == [i \in 1..Len(s) |-> s[Len(s) + 1 - i]]

\* ' '.join(f"{char}U+2728" for char in name)
emoji_name(s) == join(<<" ">>, [i \in 1..Len(s) |-> <<s[i], "U+2728">>])

\* A mutant of spaced: the characters are joined without a separator.
spaced_no_separator(s) == join(<< >>, [i \in 1..Len(s) |-> <<s[i]>>])

\* ' '.join(name)
spaced(s) == join(<<" ">>, [i \in 1..Len(s) |-> <<s[i]>>])

\* The labels of the eight styles, in the order of the appends.
Labels ==
    << "U+1F539 Normal: ", "U+1F538 UPPERCASE: ", "U+1F539 lowercase: ",
       "U+1F538 Title Case: ", "U+1F539 AlTeRnAtInG: ", "U+1F538 Reverse: ",
       "U+1F539 With Emojis: ", "U+1F538 Spaced Out: " >>

\* The list `styles` before it is joined.
styles_list(name) ==
    << <<Labels[1]>> \o name,
       <<Labels[2]>> \o upper(name),
       <<Labels[3]>> \o lower(name),
       <<Labels[4]>> \o title(name),
       <<Labels[5]>> \o alternating(name),
       <<Labels[6]>> \o reverse(name),
       <<Labels[7]>> \o emoji_name(name),
       <<Labels[8]>> \o spaced(name) >>

\* create_name_styles returns '\n'.join(styles).
create_name_styles(name) == join(<<LF>>, styles_list(name))

\* The lines of a text: the pieces between its line breaks.
RECURSIVE lines(_)
lines(s) ==
    IF \A i \in 1..Len(s) : s[i] # LF THEN <<s>>
    ELSE LET k == CHOOSE i \in 1..Len(s) : s[i] = LF /\ \A j \in 1..(i - 1) : s[j] # LF
         IN  <<SubSeq(s, 1, k - 1)>> \o lines(SubSeq(s, k + 1, Len(s)))

(***************************************************************************)
(* The literals of the handlers.                                           *)
(***************************************************************************)
welcome_message ==
    << "U+1F44B Welcome to the Name Styler Bot!", LF, LF,
       "I can display your name in different cool styles. Please send me your name:" >>

valid_name_text == << "Please send me a valid name!" >>

response_header(user_name) ==
    << "U+2728 Here's your name in different styles, " >> \o user_name \o << "!", LF, LF >>

try_another_text == << "Want to try another name? Use /start to begin again!" >>

help_text ==
    << "U+1F916 Name Styler Bot Help", LF, LF,
       "U+2022 Use /start to begin and enter your name", LF,
       "U+2022 I'll show your name in different cool styles", LF,
       "U+2022 You can try as many names as you want!", LF, LF,
       "Just type /start to begin the fun!" >>

cancel_text == << "Operation cancelled. Use /start to begin again!" >>

\* ReplyKeyboardMarkup(keyboard, resize_keyboard=True): the rows of buttons;
\* no_markup when reply_text is given no reply_markup.
no_markup == << >>
start_help_keyboard == << << "/start", "/help" >> >>
start_keyboard == << << "/start" >> >>

(***************************************************************************)
(* Conversation states.  None is Python's None: the conversation key has   *)
(* no state (the spec's Idle); GET_NAME is the spec's AwaitingName; a      *)
(* callback returning END ends the conversation.                           *)
(***************************************************************************)
None == 0
GET_NAME == 1
END == 0 - 1

(***************************************************************************)
(* Inbound updates: the tagged variant Command(name) or Text(body), each   *)
(* sent by one chat.                                                       *)
(***************************************************************************)
Chats == {"A", "B"}
Commands == {"start", "help", "cancel", "settings"}

Command(chat, name) ==
    [chat |-> chat, kind |-> "command", command |-> name, text |-> << "/", name >>]
TextMessage(chat, body) ==
    [chat |-> chat, kind |-> "text", command |-> "", text |-> body]

Updates ==
    {Command(c, n) : c \in Chats, n \in Commands}
        \cup {TextMessage(c, t) : c \in Chats, t \in Texts}

\* Before the first update.
NoUpdate == [chat |-> "", kind |-> "none", command |-> "", text |-> << >>]

\* filters.TEXT, filters.COMMAND
filters_TEXT(u) == u.text # << >>
filters_COMMAND(u) == u.kind = "command"

\* A mutant of the GET_NAME filter: filters.TEXT alone.
filters_TEXT_only(u) == filters_TEXT(u)

\* filters.TEXT & ~filters.COMMAND
text_not_command(u) == filters_TEXT(u) /\ ~filters_COMMAND(u)

\* CommandHandler(name, callback).check_update
command_matches(name, u) == filters_COMMAND(u) /\ u.command = name

\* A mutant of the conversation key: one key for every chat.
shared_key(u) == "A"

\* The conversation key of an update: the ConversationHandler is built with
\* the defaults per_chat and per_user, the key is the chat's (and user's) id.
get_key(u) == u.chat

\* A mutant of allow_reentry.
allow_reentry_set == TRUE

\* ConversationHandler(...) is built without allow_reentry: the default.
allow_reentry == FALSE

no_handler == "none"

\* A mutant of check_update: the fallbacks are tried in every state.
check_update_fallbacks_anywhere(state, u) ==
    IF (state = None \/ allow_reentry) /\ command_matches("start", u) THEN "start"
    ELSE IF state = GET_NAME /\ text_not_command(u) THEN "get_name"
    ELSE IF command_matches("cancel", u) THEN "cancel"
    ELSE no_handler

\* A mutant of check_update: the handlers of GET_NAME are tried in every state.
check_update_text_anywhere(state, u) ==
    IF (state = None \/ allow_reentry) /\ command_matches("start", u) THEN "start"
    ELSE IF text_not_command(u) THEN "get_name"
    ELSE IF state = None THEN no_handler
    ELSE IF command_matches("cancel", u) THEN "cancel"
    ELSE no_handler

\* ConversationHandler.check_update for conv_handler: the callback that
\* handles update u when the conversation is in `state`, or no_handler.
\* The entry points are tried with no state (or allow_reentry); with a
\* state, the handlers of the state and then the fallbacks.
check_update(state, u) ==
    IF (state = None \/ allow_reentry) /\ command_matches("start", u) THEN "start"
    ELSE IF state = None THEN no_handler
    ELSE IF state = GET_NAME /\ text_not_command(u) THEN "get_name"
    ELSE IF command_matches("cancel", u) THEN "cancel"
    ELSE no_handler

\* The handlers of the application, in the order they were added: the first
\* whose check_update accepts the update handles it.
dispatch(state, u) ==
    IF check_update(state, u) # no_handler THEN check_update(state, u)
    ELSE IF command_matches("help", u) THEN "help_command"
    ELSE no_handler

(***************************************************************************)
(* The handler callbacks.  `fail` numbers the reply_text call that raises  *)
(* (the request to Telegram fails), 0 when none does.  A callback yields   *)
(* the messages it sent, the arguments of its calls of create_name_styles  *)
(* with the value the last one returned, and either the state it returns   *)
(* or the fact that it raised.                                             *)
(***************************************************************************)
\* update.message.reply_text(text, reply_markup=markup)
reply_text(u, text, markup) == [chat_id |-> u.chat, text |-> text, reply_markup |-> markup]

returned(replies, calls, styles, ret) ==
    [replies |-> replies, calls |-> calls, styles |-> styles, raised |-> FALSE, ret |-> ret]
raised(replies, calls, styles) ==
    [replies |-> replies, calls |-> calls, styles |-> styles, raised |-> TRUE, ret |-> None]

\* A mutant of start: the conversation is ended instead of entered.
start_returns_end(u, fail) ==
    IF fail = 1 THEN raised(<< >>, << >>, << >>)
    ELSE returned(<< reply_text(u, welcome_message, no_markup) >>, << >>, << >>, END)

start(u, fail) ==
    IF fail = 1 THEN raised(<< >>, << >>, << >>)
    ELSE returned(<< reply_text(u, welcome_message, no_markup) >>, << >>, << >>, GET_NAME)

\* A mutant of get_name: the secondary prompt is sent before the response.
get_name_prompt_first(u, fail) ==
    LET user_name == strip(u.text)
        styles == create_name_styles(user_name)
        response == reply_text(u, response_header(user_name) \o styles, no_markup)
        again == reply_text(u, try_another_text, start_help_keyboard)
    IN  IF user_name = << >>
        THEN IF fail = 1 THEN raised(<< >>, << >>, << >>)
             ELSE returned(<< reply_text(u, valid_name_text, no_markup) >>, << >>, << >>, GET_NAME)
        ELSE IF fail = 1 THEN raised(<< >>, << user_name >>, styles)
        ELSE IF fail = 2 THEN raised(<< again >>, << user_name >>, styles)
        ELSE returned(<< again, response >>, << user_name >>, styles, END)

\* A mutant of get_name: an empty name ends the conversation.
get_name_empty_ends(u, fail) ==
    LET user_name == strip(u.text)
        styles == create_name_styles(user_name)
        response == reply_text(u, response_header(user_name) \o styles, no_markup)
        again == reply_text(u, try_another_text, start_help_keyboard)
    IN  IF user_name = << >>
        THEN IF fail = 1 THEN raised(<< >>, << >>, << >>)
             ELSE returned(<< reply_text(u, valid_name_text, no_markup) >>, << >>, << >>, END)
        ELSE IF fail = 1 THEN raised(<< >>, << user_name >>, styles)
        ELSE IF fail = 2 THEN raised(<< response >>, << user_name >>, styles)
        ELSE returned(<< response, again >>, << user_name >>, styles, END)

\* A mutant of get_name: a failure of the secondary prompt is swallowed.
get_name_prompt_optional(u, fail) ==
    LET user_name == strip(u.text)
        styles == create_name_styles(user_name)
        response == reply_text(u, response_header(user_name) \o styles, no_markup)
        again == reply_text(u, try_another_text, start_help_keyboard)
    IN  IF user_name = << >>
        THEN IF fail = 1 THEN raised(<< >>, << >>, << >>)
             ELSE returned(<< reply_text(u, valid_name_text, no_markup) >>, << >>, << >>, GET_NAME)
        ELSE IF fail = 1 THEN raised(<< >>, << user_name >>, styles)
        ELSE IF fail = 2 THEN returned(<< response >>, << user_name >>, styles, END)
        ELSE returned(<< response, again >>, << user_name >>, styles, END)

get_name(u, fail) ==
    LET user_name == strip(u.text)
        styles == create_name_styles(user_name)
        response == reply_text(u, response_header(user_name) \o styles, no_markup)
        again == reply_text(u, try_another_text, start_help_keyboard)
    IN  IF user_name = << >>
        THEN IF fail = 1 THEN raised(<< >>, << >>, << >>)
             ELSE returned(<< reply_text(u, valid_name_text, no_markup) >>, << >>, << >>, GET_NAME)
        ELSE IF fail = 1 THEN raised(<< >>, << user_name >>, styles)
        ELSE IF fail = 2 THEN raised(<< response >>, << user_name >>, styles)
        ELSE returned(<< response, again >>, << user_name >>, styles, END)

\* A mutant of cancel: the conversation stays in GET_NAME.
cancel_stays(u, fail) ==
    IF fail = 1 THEN raised(<< >>, << >>, << >>)
    ELSE returned(<< reply_text(u, cancel_text, start_keyboard) >>, << >>, << >>, GET_NAME)

cancel(u, fail) ==
    IF fail = 1 THEN raised(<< >>, << >>, << >>)
    ELSE returned(<< reply_text(u, cancel_text, start_keyboard) >>, << >>, << >>, END)

help_command(u, fail) ==
    IF fail = 1 THEN raised(<< >>, << >>, << >>)
    ELSE returned(<< reply_text(u, help_text, no_markup) >>, << >>, << >>, None)

\* The number of reply_text calls on the path a callback takes for update u.
reply_calls(handler, u) ==
    IF handler = "get_name" /\ strip(u.text) # << >> THEN 2 ELSE 1

\* A mutant of update_state: a callback that raises resets the conversation.
update_state_reset_on_error(convs, key, out) ==
    IF out.raised \/ out.ret = END THEN [convs EXCEPT ![key] = None]
    ELSE IF out.ret # None THEN [convs EXCEPT ![key] = out.ret]
    ELSE convs

\* ConversationHandler.handle_update: the state a callback returns becomes
\* the state of the key (END removes the key, None leaves it); a callback
\* that raises leaves the conversations as they were.
update_state(convs, key, out) ==
    IF out.raised THEN convs
    ELSE IF out.ret = END THEN [convs EXCEPT ![key] = None]
    ELSE IF out.ret # None THEN [convs EXCEPT ![key] = out.ret]
    ELSE convs

\* error_handler: logger.error(f"Exception while handling an update: {context.error}")
error_handler(error) == << "Exception while handling an update: ", error >>

(***************************************************************************)
(* The process: the module is loaded by the main thread, which fails when  *)
(* the token is missing, else starts bot_thread (run_bot) and calls        *)
(* app.run, the HTTP listener.                                             *)
(***************************************************************************)
\* What os.getenv('TELEGRAM_BOT_TOKEN') gives: unset stands for None (the
\* variable is absent), "" for a variable set to the empty string.
unset == "None"
TokenValues == {unset, "", "123:ABC"}

\* A mutant of the token check: the module goes on without a token.
token_check_skipped(token) == FALSE

\* `not TOKEN`
token_missing(token) == token \in {unset, ""}

\* A mutant of daemon: the bot thread is a daemon thread.
daemon_set == TRUE

\* threading.Thread(target=run_bot) is created without daemon: the thread
\* is not a daemon thread, the process waits for it when the main thread ends.
daemon == FALSE

\* The handlers run_bot adds to the application, in order.
added_handlers == << "conv_handler", "help_command" >>

\* home()
home == << "Telegram Name Styler Bot is running!" >>

NoRequest == [method |-> "", path |-> ""]
NoResponse == [status |-> 0, body |-> << >>]
Requests ==
    { [method |-> "GET", path |-> "/"], [method |-> "POST", path |-> "/"],
      [method |-> "GET", path |-> "/health"] }

\* A mutant of the routing: no view is registered for '/'.
flask_dispatch_no_route(req) == [status |-> 404, body |-> << "Not Found" >>]

\* The Flask app has the one route '/', for GET (HEAD and OPTIONS come with
\* it): any other path is Not Found, another method on '/' is not allowed.
flask_dispatch(req) ==
    IF req.path # "/" THEN [status |-> 404, body |-> << "Not Found" >>]
    ELSE IF req.method # "GET" THEN [status |-> 405, body |-> << "Method Not Allowed" >>]
    ELSE [status |-> 200, body |-> home]

(***************************************************************************)
(* State.                                                                  *)
(*   TOKEN          the module's TOKEN                                     *)
(*   main           where the main thread is: "import" (loading the        *)
(*                  module), "fatal" (the ValueError was raised), "main"   *)
(*                  (about to start bot_thread), "app_run" (about to call  *)
(*                  app.run), "serving" (in app.run), "exited"             *)
(*   bot_thread     "unstarted", "run_bot" (started, run_bot not yet       *)
(*                  polling), "polling", "exited"                          *)
(*   handlers       the handlers added to the application                  *)
(*   request        the HTTP request served last, response its response    *)
(*   conversations  the state of every conversation key                    *)
(*   polling        run_polling is receiving updates                       *)
(*   update         the update processed last                              *)
(*   state          the state of its conversation when it was dispatched   *)
(*   handler        the callback that handled it                           *)
(*   sent           the messages sent while it was handled                 *)
(*   engine_calls   the arguments create_name_styles was called with       *)
(*   styles         the value create_name_styles returned                  *)
(*   error          the callback raised                                    *)
(*   log_line       what error_handler logged for it                       *)
(*   logged         the number of errors logged so far                     *)
(***************************************************************************)
VARIABLES conversations, polling, update, state, handler, sent, engine_calls,
          styles, error, log_line, logged,
          TOKEN, main, bot_thread, handlers, request, response

vars == << conversations, polling, update, state, handler, sent, engine_calls,
           styles, error, log_line, logged,
           TOKEN, main, bot_thread, handlers, request, response >>

\* What an update leaves alone.
process_vars == << TOKEN, main, bot_thread, handlers, request, response >>
\* What the last update left.
update_vars == << update, state, handler, sent, engine_calls, styles, error,
                 log_line, logged >>

Init ==
    /\ TOKEN \in TokenValues
    /\ main = "import"
    /\ bot_thread = "unstarted"
    /\ handlers = << >>
    /\ request = NoRequest
    /\ response = NoResponse
    /\ conversations = [k \in Chats |-> None]
    /\ polling = FALSE
    /\ update = NoUpdate
    /\ state = None
    /\ handler = no_handler
    /\ sent = << >>
    /\ engine_calls = << >>
    /\ styles = << >>
    /\ error = FALSE
    /\ log_line = << >>
    /\ logged = 0

\* Application.process_update with the outcome `out` of the callback: the
\* conversation state is updated, an exception is given to error_handler
\* and the loop goes on.
Process(u, name, out) ==
    /\ conversations' = update_state(conversations, get_key(u), out)
    /\ polling' = polling
    /\ update' = u
    /\ state' = conversations[get_key(u)]
    /\ handler' = name
    /\ sent' = out.replies
    /\ engine_calls' = out.calls
    /\ styles' = out.styles
    /\ error' = out.raised
    /\ log_line' = IF out.raised THEN error_handler("NetworkError") ELSE << >>
    /\ logged' = IF out.raised THEN logged + 1 ELSE logged
    /\ UNCHANGED process_vars

Handles(name, u, fail) ==
    /\ polling
    /\ dispatch(conversations[get_key(u)], u) = name
    /\ fail \in 0..reply_calls(name, u)
    /\ fail > 0 => logged < MaxErrors

Start(u, fail) ==
    /\ Handles("start", u, fail)
    /\ Process(u, "start", start(u, fail))

GetName(u, fail) ==
    /\ Handles("get_name", u, fail)
    /\ Process(u, "get_name", get_name(u, fail))

Cancel(u, fail) ==
    /\ Handles("cancel", u, fail)
    /\ Process(u, "cancel", cancel(u, fail))

Help(u, fail) ==
    /\ Handles("help_command", u, fail)
    /\ Process(u, "help_command", help_command(u, fail))

\* No handler accepts the update: nothing is called.
Unhandled(u) ==
    /\ Handles(no_handler, u, 0)
    /\ Process(u, no_handler, returned(<< >>, << >>, << >>, None))

\* Lines 1-132 are run: TOKEN is read and checked, the Flask app and its
\* route are made.
LoadModule ==
    /\ main = "import"
    /\ main' = IF token_missing(TOKEN) THEN "fatal" ELSE "main"
    /\ UNCHANGED << TOKEN, bot_thread, handlers, request, response,
                    conversations, polling >>
    /\ UNCHANGED update_vars

\* bot_thread.start()
StartBotThread ==
    /\ main = "main"
    /\ main' = "app_run"
    /\ bot_thread' = "run_bot"
    /\ UNCHANGED << TOKEN, handlers, request, response, conversations, polling >>
    /\ UNCHANGED update_vars

\* run_bot up to run_polling receiving updates: the application is built
\* and the handlers are added.
RunBot ==
    /\ bot_thread = "run_bot"
    /\ bot_thread' = "polling"
    /\ handlers' = added_handlers
    /\ polling' = TRUE
    /\ UNCHANGED << TOKEN, main, request, response, conversations >>
    /\ UNCHANGED update_vars

\* run_bot ends: building the application or run_polling raises, or
\* run_polling returns.  The main thread is not told.
BotThreadExits ==
    /\ bot_thread \in {"run_bot", "polling"}
    /\ bot_thread' = "exited"
    /\ polling' = FALSE
    /\ UNCHANGED << TOKEN, main, handlers, request, response, conversations >>
    /\ UNCHANGED update_vars

\* app.run(host='0.0.0.0', port=5000) is listening.
AppRun ==
    /\ main = "app_run"
    /\ main' = "serving"
    /\ UNCHANGED << TOKEN, bot_thread, handlers, request, response,
                    conversations, polling >>
    /\ UNCHANGED update_vars

\* app.run ends (it raises, the port being taken, or it returns): the main
\* thread ends; the process goes on while a thread that is no daemon runs.
MainThreadExits ==
    /\ main \in {"app_run", "serving"}
    /\ main' = "exited"
    /\ bot_thread' = IF daemon /\ bot_thread # "unstarted" THEN "exited" ELSE bot_thread
    /\ polling' = (polling /\ ~daemon)
    /\ UNCHANGED << TOKEN, handlers, request, response, conversations >>
    /\ UNCHANGED update_vars

\* The HTTP listener serves a request.
HttpRequest(req) ==
    /\ main = "serving"
    /\ request' = req
    /\ response' = flask_dispatch(req)
    /\ UNCHANGED << TOKEN, main, bot_thread, handlers, conversations, polling >>
    /\ UNCHANGED update_vars

Next ==
    \/ LoadModule
    \/ StartBotThread
    \/ RunBot
    \/ BotThreadExits
    \/ AppRun
    \/ MainThreadExits
    \/ \E req \in Requests : HttpRequest(req)
    \/ \E u \in Updates : \E fail \in 0..2 : Start(u, fail)
    \/ \E u \in Updates : \E fail \in 0..2 : GetName(u, fail)
    \/ \E u \in Updates : \E fail \in 0..2 : Cancel(u, fail)
    \/ \E u \in Updates : \E fail \in 0..2 : Help(u, fail)
    \/ \E u \in Updates : Unhandled(u)

Spec == Init /\ [][Next]_vars

(***************************************************************************)
(* create_name_styles on its own: every name get_name can give it (a       *)
(* stripped, non-empty text) is given to it.                               *)
(***************************************************************************)
Names ==
    {n \in StringsUpTo(NameChars, MaxNameLen) : n # << >> /\ strip(n) = n}

CallEngine(n) ==
    /\ engine_calls = << >>
    /\ engine_calls' = << n >>
    /\ styles' = create_name_styles(n)
    /\ UNCHANGED << conversations, polling, update, state, handler, sent,
                    error, log_line, logged >>
    /\ UNCHANGED process_vars

EngineNext == \E n \in Names : CallEngine(n)

\* The bot is polling and no update has come yet.
EngineInit ==
    /\ TOKEN = "123:ABC"
    /\ main = "app_run"
    /\ bot_thread = "polling"
    /\ handlers = added_handlers
    /\ request = NoRequest
    /\ response = NoResponse
    /\ conversations = [k \in Chats |-> None]
    /\ polling = TRUE
    /\ update = NoUpdate
    /\ state = None
    /\ handler = no_handler
    /\ sent = << >>
    /\ engine_calls = << >>
    /\ styles = << >>
    /\ error = FALSE
    /\ log_line = << >>
    /\ logged = 0

EngineSpec == EngineInit /\ [][EngineNext]_vars

\* The session of a chat, as the spec names it.
SessionIn(convs, chat) == convs[get_key([chat |-> chat])]
Session(chat) == SessionIn(conversations, chat)

(***************************************************************************)
(* The claims.  Each is about the update processed last: `state` is the    *)
(* session its chat was in when the update arrived, Session(update.chat)   *)
(* the session it is in now.  "Without a dispatch error" says that no      *)
(* reply_text call of the callback raised (error = FALSE).                 *)
(***************************************************************************)
welcome_reply == reply_text(update, welcome_message, no_markup)
cancel_reply == reply_text(update, cancel_text, start_keyboard)
help_reply == reply_text(update, help_text, no_markup)
valid_name_reply == reply_text(update, valid_name_text, no_markup)
try_another_reply == reply_text(update, try_another_text, start_help_keyboard)

\* The text is only whitespace.
Blank(text) == \A i \in 1..Len(text) : text[i] \in Whitespace

\* `name` is `text` without its leading and trailing whitespace.
TrimOf(text, name) ==
    \E i \in 1..Len(text) : \E j \in i..Len(text) :
        /\ name = SubSeq(text, i, j)
        /\ text[i] \notin Whitespace
        /\ text[j] \notin Whitespace
        /\ \A k \in 1..Len(text) : (k < i \/ k > j) => text[k] \in Whitespace

\* C1 as the spec states it: /start in AwaitingName emits the welcome prompt
\* again and the session stays in AwaitingName.
C1_ReentryEmitsWelcome ==
    (update.command = "start" /\ state = GET_NAME /\ ~error)
        => (sent = << welcome_reply >> /\ Session(update.chat) = GET_NAME)

\* C1, amended: /start in AwaitingName is accepted by no handler: nothing is
\* emitted, nothing raises, and the session stays in AwaitingName, however
\* often it is repeated.
C1_ReentryIgnored ==
    (update.command = "start" /\ state = GET_NAME)
        => /\ handler = no_handler
           /\ sent = << >>
           /\ ~error
           /\ Session(update.chat) = GET_NAME

C1_Witness ==
    /\ update.command = "start"
    /\ state = GET_NAME
    /\ handler = no_handler
    /\ Session(update.chat) = GET_NAME

\* C2 as the spec states it: /cancel in Idle leaves the session Idle and
\* emits the cancellation acknowledgment.
C2_CancelIdleAcknowledged ==
    (update.command = "cancel" /\ state = None /\ ~error)
        => (sent = << cancel_reply >> /\ Session(update.chat) = None)

\* C2, amended: /cancel in Idle is accepted by no handler: the session stays
\* Idle and nothing is emitted.
C2_CancelIdleIgnored ==
    (update.command = "cancel" /\ state = None)
        => /\ handler = no_handler
           /\ sent = << >>
           /\ ~error
           /\ Session(update.chat) = None

C2_Witness ==
    /\ update.command = "cancel"
    /\ state = None
    /\ handler = no_handler
    /\ Session(update.chat) = None

\* C3: from Idle, /start handled without a dispatch error moves the session
\* to AwaitingName and emits exactly one message, the welcome prompt.
C3_StartFromIdle ==
    (update.command = "start" /\ state = None /\ ~error)
        => /\ handler = "start"
           /\ Session(update.chat) = GET_NAME
           /\ sent = << welcome_reply >>
           /\ engine_calls = << >>

C3_Witness ==
    /\ update.command = "start"
    /\ state = None
    /\ ~error
    /\ Session(update.chat) = GET_NAME
    /\ Len(sent) = 1

\* C4: in AwaitingName, a non-command text that is not blank, handled without
\* a dispatch error: the engine is called once, on the trimmed text; the
\* first message emitted is the header naming the trimmed text followed by
\* the engine's result, the second the prompt suggesting /start; the session
\* ends Idle.
C4_NameStyled ==
    (update.kind = "text" /\ state = GET_NAME /\ ~Blank(update.text) /\ ~error)
        => /\ handler = "get_name"
           /\ Len(engine_calls) = 1
           /\ TrimOf(update.text, engine_calls[1])
           /\ Len(sent) = 2
           /\ sent[1].chat_id = update.chat
           /\ sent[1].text = response_header(engine_calls[1]) \o create_name_styles(engine_calls[1])
           /\ sent[1].text = response_header(engine_calls[1]) \o styles
           /\ sent[2] = try_another_reply
           /\ Session(update.chat) = None

C4_Witness ==
    /\ update.kind = "text"
    /\ state = GET_NAME
    /\ ~error
    /\ Len(sent) = 2
    /\ Len(engine_calls) = 1
    /\ engine_calls[1] # update.text
    /\ Session(update.chat) = None

\* C5: in AwaitingName, a text that is only whitespace keeps the session in
\* AwaitingName and never calls the engine; the validation prompt is the
\* only message emitted (none when sending it raises).
C5_BlankNameRejected ==
    (update.kind = "text" /\ state = GET_NAME /\ Blank(update.text))
        => /\ handler = "get_name"
           /\ Session(update.chat) = GET_NAME
           /\ engine_calls = << >>
           /\ sent = IF error THEN << >> ELSE << valid_name_reply >>

C5_Witness ==
    /\ update.kind = "text"
    /\ state = GET_NAME
    /\ Blank(update.text)
    /\ Len(update.text) = 2
    /\ sent = << valid_name_reply >>
    /\ Session(update.chat) = GET_NAME

\* C6: in AwaitingName, /cancel handled without a dispatch error moves the
\* session to Idle and emits the cancellation acknowledgment; the engine is
\* not called (with or without an error).
C6_CancelAwaiting ==
    (update.command = "cancel" /\ state = GET_NAME)
        => /\ handler = "cancel"
           /\ engine_calls = << >>
           /\ ~error => (Session(update.chat) = None /\ sent = << cancel_reply >>)

C6_Witness ==
    /\ update.command = "cancel"
    /\ state = GET_NAME
    /\ ~error
    /\ Session(update.chat) = None
    /\ sent = << cancel_reply >>

\* C7: /help is handled by help_command in every session state, although the
\* conversation handler is asked first; without a dispatch error exactly the
\* instructions are emitted; the session is left as it was.
C7_HelpAnywhere ==
    (update.command = "help")
        => /\ handler = "help_command"
           /\ Session(update.chat) = state
           /\ engine_calls = << >>
           /\ ~error => sent = << help_reply >>

C7_Witness ==
    /\ update.command = "help"
    /\ state = GET_NAME
    /\ ~error
    /\ sent = << help_reply >>
    /\ Session(update.chat) = GET_NAME

\* C8: when a callback raises, in any session state, the error is logged,
\* the session of the update's chat is what it was before the update, and
\* the listener goes on receiving updates.
C8_DispatchErrorRecovered ==
    /\ [](error => /\ log_line = error_handler("NetworkError")
                   /\ logged >= 1
                   /\ Session(update.chat) = state)
    /\ [](~error => log_line = << >>)
    /\ [][logged' # logged => (polling' /\ bot_thread' = "polling")]_vars

\* An update is handled after an error was logged for an earlier one that
\* arrived in AwaitingName.
C8_Witness ==
    /\ logged >= 1
    /\ ~error
    /\ handler = "get_name"
    /\ Len(sent) = 2
    /\ polling

\* The session a chat is in after one of its own updates, from the session
\* it was in, the update, and whether the callback raised.
OwnStep(s, u, failed) ==
    IF failed THEN s
    ELSE IF s = None THEN (IF u.command = "start" THEN GET_NAME ELSE None)
    ELSE IF u.command = "cancel" THEN None
    ELSE IF u.kind = "text" /\ ~Blank(u.text) THEN None
    ELSE GET_NAME

\* C9: an update of one chat leaves the session of every other chat as it
\* was and emits messages to its own chat only; the session its chat reaches
\* is determined by the session that chat was in and the update.
C9_SessionsIndependent ==
    [][ update' \in Updates =>
          /\ \A c \in Chats :
                 c # update'.chat => SessionIn(conversations', c) = Session(c)
          /\ \A i \in 1..Len(sent') : sent'[i].chat_id = update'.chat
          /\ SessionIn(conversations', update'.chat)
                 = OwnStep(Session(update'.chat), update', error')
      ]_vars

\* Chat B went through its conversation while chat A stays in AwaitingName.
C9_Witness ==
    /\ Session("A") = GET_NAME
    /\ update.chat = "B"
    /\ handler = "get_name"
    /\ state = GET_NAME
    /\ Session("B") = None

\* C10: the result of the engine is exactly 8 lines, the i-th starting with
\* the i-th label (Normal, Uppercase, Lowercase, Title Case, Alternating,
\* Reverse, With Emojis, Spaced Out), for every non-empty name, a name
\* holding a line break included.
C10_EightLabeledLines ==
    engine_calls # << >>
        => /\ Len(lines(styles)) = 8
           /\ \A i \in 1..8 : lines(styles)[i] = styles_list(engine_calls[1])[i]
           /\ \A i \in 1..8 : Head(lines(styles)[i]) = Labels[i]

(***************************************************************************)
(* The variants in the result of the engine.  A label is one piece and no  *)
(* character of a name is a label, so each label is found once in          *)
(* `styles`; the i-th variant is what stands between the i-th label and    *)
(* the line break before the next label (the end, for the last).           *)
(***************************************************************************)
LabelAt(i) == CHOOSE p \in 1..Len(styles) : styles[p] = Labels[i]
Variant(i) ==
    SubSeq(styles, LabelAt(i) + 1,
           IF i = Len(Labels) THEN Len(styles) ELSE LabelAt(i + 1) - 2)

\* The name the engine was called with.
EngineName == engine_calls[1]

\* The reference rule of title case: the name is split on whitespace; in
\* each word the first character is uppercased (its title form, which is
\* the uppercase form wherever that is one character) and the others are
\* lowercased.
TitleReference(name) ==
    join(<< >>, [i \in 1..Len(name) |->
        IF name[i] \in Whitespace THEN << name[i] >>
        ELSE IF i = 1 \/ name[i - 1] \in Whitespace THEN title_char(name[i])
        ELSE lower_char(name[i])])

\* C11: the Title Case variant equals the reference rule (split on
\* whitespace; first character of each word uppercased, the others
\* lowercased) for every non-empty name, words holding digits or apostrophes
\* included.
C11_TitleIsReferenceRule ==
    engine_calls # << >> => Variant(4) = TitleReference(EngineName)

\* C12: the Alternating variant has the length of the name, and its
\* character at 0-based index i is the uppercase form of the name's
\* character when i is even, the lowercase form when i is odd.
C12_AlternatingPositional ==
    engine_calls # << >>
        => /\ Len(Variant(5)) = Len(EngineName)
           /\ \A i \in 1..Len(EngineName) :
                << Variant(5)[i] >> = IF (i - 1) % 2 = 0 THEN upper_char(EngineName[i])
                                      ELSE lower_char(EngineName[i])

NotSpace(c) == c # " "

\* C13: the Spaced Out variant of a name of length k has length 2k-1 with a
\* space at every odd 0-based index; when the name holds no space, removing
\* the spaces of the variant gives the name back.
C13_SpacedOutRoundTrip ==
    engine_calls # << >>
        => /\ Len(Variant(8)) = 2 * Len(EngineName) - 1
           /\ \A i \in 1..Len(Variant(8)) : (i - 1) % 2 = 1 => Variant(8)[i] = " "
           /\ (\A i \in 1..Len(EngineName) : EngineName[i] # " ")
                => SelectSeq(Variant(8), NotSpace) = EngineName

C13_Witness ==
    /\ engine_calls # << >>
    /\ Len(EngineName) = 3
    /\ \A i \in 1..Len(EngineName) : EngineName[i] # " "
    /\ Len(Variant(8)) = 5
    /\ SelectSeq(Variant(8), NotSpace) = EngineName

\* C14: with the token absent from the environment the start fails with the
\* fatal error: once the module is loaded the main thread is in "fatal";
\* bot_thread is never started, no handler is added, neither listener
\* (polling, HTTP) ever runs, no update and no request is served.
C14_NoTokenNoStart ==
    TOKEN = unset
        => /\ main \in {"import", "fatal"}
           /\ bot_thread = "unstarted"
           /\ ~polling
           /\ handlers = << >>
           /\ update = NoUpdate
           /\ request = NoRequest

C14_Witness ==
    /\ TOKEN = unset
    /\ main = "fatal"
    /\ bot_thread = "unstarted"

\* C15: GET / is answered with status 200 and the fixed body, whatever the
\* sessions are, and serving a request changes no session.
C15_LivenessEndpoint ==
    /\ []((request.method = "GET" /\ request.path = "/")
            => response = [status |-> 200, body |-> home])
    /\ [][(request' # request \/ response' # response)
            => conversations' = conversations]_vars

\* GET / was answered while chat A was in AwaitingName and chat B Idle.
C15_Witness ==
    /\ request = [method |-> "GET", path |-> "/"]
    /\ response.status = 200
    /\ Session("A") = GET_NAME
    /\ Session("B") = None
    /\ polling

\* C16: the two listeners share no state and end independently: the step
\* that ends one leaves the other as it was, a step of one changes nothing
\* of the other, and while one is up it can serve whether or not the other
\* has ended.
C16_ListenersIndependent ==
    /\ [][ /\ (main' = "exited" /\ main # "exited")
                => (bot_thread' = bot_thread /\ polling' = polling)
           /\ (bot_thread' = "exited" /\ bot_thread # "exited") => main' = main
           /\ (request' # request \/ response' # response)
                => (UNCHANGED update_vars /\ UNCHANGED << conversations, polling, bot_thread >>)
           /\ (update_vars' # update_vars \/ conversations' # conversations)
                => UNCHANGED << main, request, response >>
         ]_vars
    /\ [](polling => ENABLED Help(Command("A", "help"), 0))
    /\ [](main = "serving" => ENABLED HttpRequest([method |-> "GET", path |-> "/health"]))

\* The HTTP listener has ended and the bot is handling updates; or the other
\* way round.
C16_Witness ==
    /\ main = "exited"
    /\ polling
    /\ update # NoUpdate
    /\ response # NoResponse

\* C17: the engine is called only for a text message (no command) that
\* arrived in AwaitingName, once, and with a name that is not empty and has
\* no whitespace at either end.
C17_EngineOnlyOnTrimmedName ==
    engine_calls # << >>
        => /\ state = GET_NAME
           /\ update.kind = "text"
           /\ handler = "get_name"
           /\ Len(engine_calls) = 1
           /\ EngineName # << >>
           /\ EngineName[1] \notin Whitespace
           /\ EngineName[Len(EngineName)] \notin Whitespace

\* The engine was called for a text with whitespace at its end.
C17_Witness ==
    /\ engine_calls # << >>
    /\ state = GET_NAME
    /\ update.text[Len(update.text)] \in Whitespace
    /\ EngineName = << "a" >>

\* C18: a text message (no command) that arrives in Idle is not a name:
\* nothing is emitted, the engine is not called, the session stays Idle.
C18_TextInIdleIgnored ==
    (update.kind = "text" /\ state = None)
        => /\ handler = no_handler
           /\ sent = << >>
           /\ engine_calls = << >>
           /\ ~error
           /\ Session(update.chat) = None

C18_Witness ==
    /\ update.kind = "text"
    /\ ~Blank(update.text)
    /\ state = None
    /\ handler = no_handler
    /\ Session(update.chat) = None

\* C19: for a name that is not blank the session leaves AwaitingName only
\* when both replies were emitted; when the secondary prompt fails after the
\* styled response was sent, the session is still in AwaitingName.
C19_LeavesAfterBothReplies ==
    (handler = "get_name" /\ state = GET_NAME /\ ~Blank(update.text))
        => /\ Session(update.chat) = None => (Len(sent) = 2 /\ ~error)
           /\ Len(sent) < 2 => (error /\ Session(update.chat) = GET_NAME)

\* The styled response was received and the session is still AwaitingName.
C19_Witness ==
    /\ handler = "get_name"
    /\ state = GET_NAME
    /\ error
    /\ Len(sent) = 1
    /\ sent[1].text = response_header(EngineName) \o styles
    /\ Session(update.chat) = GET_NAME
=============================================================================
